---- MODULE Spec2Model ----
(***************************************************************************)
(* A model of blog.py, the request handlers of a small RESTful blog for    *)
(* Google App Engine: the article and comment submission pipelines, the    *)
(* permalink policy, the page / article / month lookups and the render     *)
(* cache invalidation convention.                                          *)
(*                                                                         *)
(* Strings are sequences of one-character strings, so that the regular     *)
(* expression substitutions, str() and string.atoi() are computed and not  *)
(* assumed.                                                                *)
(***************************************************************************)
EXTENDS Integers, Sequences, FiniteSets, TLC

VARIABLES
    articles,         \* datastore: Article entities, by datastore id
    comments,         \* datastore: Comment entities, by datastore id
    next_article_id,  \* datastore id allocator for Article
    next_comment_id,  \* datastore id allocator for Comment
    cache,            \* the process-wide render cache holds rendered pages
    legacy_cfg,       \* config.blog has the key 'legacy_id_mapping'
    req,              \* the requests in flight: position, locals, response
    scratch           \* the argument and results of the pure functions

vars == <<articles, comments, next_article_id, next_comment_id, cache,
          legacy_cfg, req, scratch>>

----------------------------------------------------------------------------
(* Bounds of the model.                                                     *)

MaxArticles == 2      \* Article entities ever created
MaxComments == 2      \* Comment entities ever created
MaxReqs == 2          \* requests in flight at once
MaxTitleLen == 3      \* length of the titles get_friendly_url is applied to

----------------------------------------------------------------------------
(* Characters and strings.                                                  *)

None == <<"None">>    \* Python's None; no string of the model equals it

LowerSeq == <<"a","b","c","d","e","f","g","h","i","j","k","l","m",
              "n","o","p","q","r","s","t","u","v","w","x","y","z">>
UpperSeq == <<"A","B","C","D","E","F","G","H","I","J","K","L","M",
              "N","O","P","Q","R","S","T","U","V","W","X","Y","Z">>
DigitSeq == <<"0","1","2","3","4","5","6","7","8","9">>

Range(s) == {s[i] : i \in DOMAIN s}

Digits == Range(DigitSeq)

\* \s of the re module
Whitespace == {" ", "\t", "\n", "\r"}

\* \w of the re module (no LOCALE, no UNICODE flag)
WordChars == Range(LowerSeq) \cup Range(UpperSeq) \cup Digits \cup {"_"}

\* one character of str.lower()
LowerChar(c) ==
    IF c \in Range(UpperSeq)
    THEN LowerSeq[CHOOSE i \in DOMAIN UpperSeq : UpperSeq[i] = c]
    ELSE c

\* str.lower()
Lower(s) == [i \in DOMAIN s |-> LowerChar(s[i])]

RECURSIVE LStrip(_)
LStrip(s) ==
    IF s = <<>> THEN s
    ELSE IF Head(s) \in Whitespace THEN LStrip(Tail(s)) ELSE s

RECURSIVE RStrip(_)
RStrip(s) ==
    IF s = <<>> THEN s
    ELSE IF s[Len(s)] \in Whitespace THEN RStrip(SubSeq(s, 1, Len(s) - 1)) ELSE s

\* str.strip()
Strip(s) == RStrip(LStrip(s))

\* re.sub('\s+', '-', s)
RECURSIVE SubWhitespace(_)
SubWhitespace(s) ==
    IF s = <<>> THEN s
    ELSE IF Head(s) \in Whitespace
         THEN <<"-">> \o SubWhitespace(LStrip(Tail(s)))
         ELSE <<Head(s)>> \o SubWhitespace(Tail(s))

KeepWordOrHyphen(c) == c \in WordChars \cup {"-"}

\* re.sub('[^\w-]', '', s)
RemoveNonWord(s) == SelectSeq(s, KeepWordOrHyphen)

RECURSIVE SkipHyphens(_)
SkipHyphens(s) ==
    IF s = <<>> THEN s
    ELSE IF Head(s) = "-" THEN SkipHyphens(Tail(s)) ELSE s

\* re.sub('-+', '-', s)
RECURSIVE CollapseHyphens(_)
CollapseHyphens(s) ==
    IF s = <<>> THEN s
    ELSE IF Head(s) = "-"
         THEN <<"-">> \o CollapseHyphens(SkipHyphens(Tail(s)))
         ELSE <<Head(s)>> \o CollapseHyphens(Tail(s))

\* a slug that keeps the runs of hyphens (the outer substitution left out)
get_friendly_url_keeps_runs(title) == RemoveNonWord(SubWhitespace(Strip(title)))

get_friendly_url(title) ==
    CollapseHyphens(RemoveNonWord(SubWhitespace(Strip(title))))

\* str() of a non-negative integer
RECURSIVE IntToStr(_)
IntToStr(n) ==
    IF n < 10 THEN <<DigitSeq[n + 1]>>
    ELSE IntToStr(n \div 10) \o <<DigitSeq[(n % 10) + 1]>>

DigitValue(c) == (CHOOSE i \in DOMAIN DigitSeq : DigitSeq[i] = c) - 1

\* string.atoi() of a string of decimal digits
RECURSIVE atoi(_)
atoi(s) ==
    IF Len(s) = 1 THEN DigitValue(s[1])
    ELSE 10 * atoi(SubSeq(s, 1, Len(s) - 1)) + DigitValue(s[Len(s)])

----------------------------------------------------------------------------
(* Dates.  A datetime is <<year, month, day, hour, minute, second>>.        *)

IsLeap(y) == (y % 4 = 0 /\ y % 100 # 0) \/ y % 400 = 0

DaysInMonth(y, m) ==
    IF m \in {4, 6, 9, 11} THEN 30
    ELSE IF m = 2 THEN (IF IsLeap(y) THEN 29 ELSE 28)
    ELSE 31

\* datetime.datetime(y, m, d, ...) raises ValueError on a day that is not in the month
ValidDate(y, m, d) == m \in 1..12 /\ d \in 1..DaysInMonth(y, m)

RECURSIVE TupleLeq(_, _)
TupleLeq(a, b) ==
    IF a = <<>> THEN TRUE
    ELSE IF Head(a) < Head(b) THEN TRUE
    ELSE IF Head(a) > Head(b) THEN FALSE
    ELSE TupleLeq(Tail(a), Tail(b))

\* datetime.strptime(time_string, '%Y-%m-%d %H:%M:%S')
strptime(ts) ==
    << atoi(SubSeq(ts, 1, 4)), atoi(SubSeq(ts, 6, 7)), atoi(SubSeq(ts, 9, 10)),
       atoi(SubSeq(ts, 12, 13)), atoi(SubSeq(ts, 15, 16)), atoi(SubSeq(ts, 18, 19)) >>

get_datetime(time_string, now) ==
    IF time_string # None THEN strptime(time_string) ELSE now

permalink_blog(title, date) ==
    IntToStr(date[1]) \o <<"/">> \o IntToStr(date[2]) \o <<"/">> \o get_friendly_url(title)

permalink_funcs(article_type, title, date) ==
    IF article_type = "page" THEN get_friendly_url(title)
    ELSE permalink_blog(title, date)

----------------------------------------------------------------------------
(* The collaborators of blog.py: authorized.role, legacy_aliases.redirects, *)
(* config.blog['legacy_id_mapping'], the builtin hash.                      *)

\* authorized.role(role): the caller is logged in ("user") or an administrator
RoleOk(role, caller) ==
    IF role = "admin" THEN caller = "admin" ELSE caller \in {"user", "admin"}

\* legacy_aliases.redirects: old path -> new path
AliasKeys == { <<"C">>, <<"o","l","d">> }
redirects(alias) ==
    IF alias = <<"C">> THEN <<"a","-","b">> ELSE <<"n","e","w">>

\* config.blog['legacy_id_mapping']['regex']: a path of decimal digits
LegacyIdMatch(path) == path # <<>> /\ \A i \in DOMAIN path : path[i] \in Digits

CharCode(c) ==
    IF c \in Range(LowerSeq) THEN 96 + (CHOOSE i \in DOMAIN LowerSeq : LowerSeq[i] = c)
    ELSE IF c \in Digits THEN 48 + DigitValue(c)
    ELSE 32

RECURSIVE StrHash(_, _)
StrHash(h, s) ==
    IF s = <<>> THEN h
    ELSE StrHash((h * 31 + CharCode(Head(s))) % 65536, Tail(s))

\* hash((name, email, body)): a deterministic function of the three strings,
\* here a 16-bit polynomial hash
TupleHash(name, email, body) == StrHash(StrHash(StrHash(7, name), email), body)

\* str(hash((property_hash['name'], property_hash['email'], property_hash['body'])))
comment_key(form) == IntToStr(TupleHash(form.name, form.email, form.body))

----------------------------------------------------------------------------
(* The datastore.                                                           *)

Unset == -1           \* an IntegerProperty that holds None

\* "not article.num_comments"
Falsy(n) == n = Unset \/ n = 0

Min(S) == CHOOSE x \in S : \A y \in S : x <= y

JoinPath(year, month, perm_stem) == year \o <<"/">> \o month \o <<"/">> \o perm_stem

\* db.Query(model.Article).filter('permalink =', permalink): the matching ids
ByPermalink(permalink) == {a \in DOMAIN articles : articles[a].permalink = permalink}

\* config.blog['legacy_id_mapping']['query'](id): the matching ids
ByLegacyId(id) == {a \in DOMAIN articles : articles[a].legacy_id = id}

\* query.get() and query.fetch(limit=1): the first entity in key order, or 0 for none
First(ids) == IF ids = {} THEN 0 ELSE Min(ids)

\* article.comment_set
comment_set(a) == {c \in DOMAIN comments : comments[c].article = a}

\* entity.put() of an entity that has a key, and of a new entity
Put(store, key, entity) ==
    [k \in DOMAIN store \cup {key} |-> IF k = key THEN entity ELSE store[k]]

\* entity.delete()
Delete(store, key) == [k \in DOMAIN store \ {key} |-> store[k]]

----------------------------------------------------------------------------
(* Requests.                                                                *)

NoForm == [name |-> None, email |-> None, body |-> None, thread |-> None]

NoEntity == [permalink |-> <<>>, article_type |-> "none", title |-> <<>>,
             published |-> <<>>, legacy_id |-> None, num_comments |-> Unset]

IdleReq == [pc |-> "idle", handler |-> "none", caller |-> "anon", path |-> <<>>,
            key |-> 0, article |-> NoEntity, form |-> NoForm,
            resp |-> "none", location |-> <<>>, shown |-> 0, listed |-> {},
            wrote |-> FALSE, inval |-> FALSE]

Free(r) == req[r].pc \in {"idle", "done"}

\* a GET request ends with response resp
Finish(start, resp) == [start EXCEPT !.pc = "done", !.resp = resp]

\* a write request ends with response resp; its locals go out of scope
End(rq, resp) ==
    [IdleReq EXCEPT !.pc = "done", !.handler = rq.handler, !.caller = rq.caller,
                    !.resp = resp, !.wrote = rq.wrote, !.inval = rq.inval]

Begin(handler, caller, path) ==
    [IdleReq EXCEPT !.handler = handler, !.caller = caller, !.path = path]

Init ==
    /\ articles = <<>>
    /\ comments = <<>>
    /\ next_article_id = 1
    /\ next_comment_id = 1
    /\ cache = FALSE
    /\ legacy_cfg = FALSE
    /\ req = [r \in 1..MaxReqs |-> IdleReq]
    /\ scratch = [phase |-> "none", title |-> <<>>, url |-> <<>>, url2 |-> <<>>]

\* the same, with or without a legacy id mapping in the configuration
InitRead ==
    /\ articles = <<>>
    /\ comments = <<>>
    /\ next_article_id = 1
    /\ next_comment_id = 1
    /\ cache = FALSE
    /\ legacy_cfg \in BOOLEAN
    /\ req = [r \in 1..MaxReqs |-> IdleReq]
    /\ scratch = [phase |-> "none", title |-> <<>>, url |-> <<>>, url2 |-> <<>>]

\* restful.get_hash_from_request: the keys of the hash, a field that the request
\* does not carry or carries empty being left out
get_hash_from_request(form) == {k \in DOMAIN form : form[k] # None /\ form[k] # <<>>}

----------------------------------------------------------------------------
(* Article submission: RootHandler.post and MonthHandler.post.              *)

\* the role a handler method is decorated with, "" for an undecorated method
RequiredRole(handler) ==
    CASE handler = "RootPost" -> "admin"
      [] handler = "PagePost" -> "user"
      [] handler = "PageDelete" -> "admin"
      [] handler = "ArticlePut" -> "admin"
      [] handler = "ArticleDelete" -> "admin"
      [] handler = "ArticlePost" -> "user"
      [] OTHER -> ""

\* the decorator lets the method body run
Authorized(handler, caller) ==
    RequiredRole(handler) = "" \/ RoleOk(RequiredRole(handler), caller)

ArticleType(handler) == IF handler = "RootPost" THEN "page" ELSE "blog"

\* model.Article(...) of process_article_submission, with fill_optional_properties
NewArticle(article_type, form, now) ==
    LET published == get_datetime(form.published, now)
    IN [permalink |-> permalink_funcs(article_type, form.title, published),
        article_type |-> article_type,
        title |-> form.title,
        published |-> published,
        legacy_id |-> form.legacy_id,
        num_comments |-> Unset]

\* RootHandler.post / MonthHandler.post up to and including article.put()
SubmitArticle(r, handler, caller, path, form, now) ==
    /\ Free(r)
    /\ handler \in {"RootPost", "MonthPost"}
    /\ LET start == Begin(handler, caller, path)
       IN IF ~Authorized(handler, caller)
          THEN /\ req' = [req EXCEPT ![r] = End(start, "unauthorized")]
               /\ UNCHANGED <<articles, next_article_id>>
          ELSE IF ~({"title", "body"} \subseteq get_hash_from_request(form))
          THEN \* property_hash has no 'permalink', 'title' or 'body': KeyError
               /\ req' = [req EXCEPT ![r] = End(start, "exception")]
               /\ UNCHANGED <<articles, next_article_id>>
          ELSE /\ next_article_id <= MaxArticles
               /\ articles' = Put(articles, next_article_id,
                                  NewArticle(ArticleType(handler), form, now))
               /\ next_article_id' = next_article_id + 1
               /\ req' = [req EXCEPT ![r] =
                            [start EXCEPT !.pc = "invalidate", !.resp = "created",
                                          !.key = next_article_id, !.wrote = TRUE]]
    /\ UNCHANGED <<comments, next_comment_id, cache, legacy_cfg, scratch>>

\* view.invalidate_cache(), the last statement of every write path
Invalidate(r) ==
    /\ req[r].pc = "invalidate"
    /\ cache' = FALSE
    /\ req' = [req EXCEPT ![r] = End([req[r] EXCEPT !.inval = TRUE], req[r].resp)]
    /\ UNCHANGED <<articles, comments, next_article_id, next_comment_id,
                   legacy_cfg, scratch>>

----------------------------------------------------------------------------
(* Comment submission: PageHandler.post and ArticleHandler.post.            *)

\* comment submissions that have not yet reached comment.put()
InFlightComments ==
    Cardinality({q \in DOMAIN req : req[q].pc \in {"put_parent", "put_comment"}})

CommentPermalink(handler, path) ==
    IF handler = "PagePost" THEN path ELSE JoinPath(path[1], path[2], path[3])

\* the handler's query for the article, and the "if not article" of
\* process_comment_submission
SubmitComment(r, handler, caller, path, form) ==
    /\ Free(r)
    /\ handler \in {"PagePost", "ArticlePost"}
    /\ LET start == Begin(handler, caller, path)
           found == First(ByPermalink(CommentPermalink(handler, path)))
       IN IF ~Authorized(handler, caller)
          THEN req' = [req EXCEPT ![r] = End(start, "unauthorized")]
          ELSE IF found = 0
          THEN req' = [req EXCEPT ![r] = End(start, "404")]
          ELSE /\ next_comment_id + InFlightComments <= MaxComments
               /\ articles[found].num_comments <= MaxComments
               /\ req' = [req EXCEPT ![r] =
                            [start EXCEPT !.pc = "put_parent", !.key = found,
                                          !.article = articles[found], !.form = form]]
    /\ UNCHANGED <<articles, comments, next_article_id, next_comment_id, cache,
                   legacy_cfg, scratch>>

\* "if not article.num_comments: ... = 1 else: ... += 1"
Incremented(n) == IF Falsy(n) THEN 1 ELSE n + 1

\* the counter update without article.put(): the parent is not persisted
PutParentNotPersisted(r) ==
    /\ req[r].pc = "put_parent"
    /\ req' = [req EXCEPT ![r].pc = "put_comment",
                          ![r].article.num_comments =
                              Incremented(req[r].article.num_comments)]
    /\ UNCHANGED <<articles, comments, next_article_id, next_comment_id, cache,
                   legacy_cfg, scratch>>

\* the counter update and article_key = article.put()
PutParent(r) ==
    /\ req[r].pc = "put_parent"
    /\ LET article == [req[r].article EXCEPT
                          !.num_comments = Incremented(req[r].article.num_comments)]
       IN /\ articles' = Put(articles, req[r].key, article)
          /\ req' = [req EXCEPT ![r].pc = "put_comment", ![r].article = article,
                                ![r].wrote = TRUE]
    /\ UNCHANGED <<comments, next_article_id, next_comment_id, cache, legacy_cfg,
                   scratch>>

\* property_hash['name'], ['email'], ['body'], ['thread']: each raises KeyError for
\* a key the hash does not hold
HasFields(form) == {"name", "email", "body", "thread"} \subseteq get_hash_from_request(form)

\* get_hash_from_request, the comment key, model.Comment(...) and comment.put()
PutComment(r) ==
    /\ req[r].pc = "put_comment"
    /\ IF ~HasFields(req[r].form)
       THEN /\ req' = [req EXCEPT ![r] = End(req[r], "exception")]
            /\ UNCHANGED <<comments, next_comment_id>>
       ELSE /\ comments' = Put(comments, next_comment_id,
                               [permalink |-> comment_key(req[r].form),
                                article |-> req[r].key])
            /\ next_comment_id' = next_comment_id + 1
            /\ req' = [req EXCEPT ![r].pc = "invalidate", ![r].resp = "created"]
    /\ UNCHANGED <<articles, next_article_id, cache, legacy_cfg, scratch>>

----------------------------------------------------------------------------
(* PageHandler.delete and the stubs ArticleHandler.put / .delete.           *)

\* PageHandler.delete up to query.fetch(limit=1)
PageDelete(r, caller, path) ==
    /\ Free(r)
    /\ LET start == Begin("PageDelete", caller, path)
           model_class == Lower(path)
           target == IF model_class = <<"a","r","t","i","c","l","e">>
                     THEN First(DOMAIN articles)
                     ELSE IF model_class = <<"c","o","m","m","e","n","t">>
                     THEN First(DOMAIN comments)
                     ELSE 0
       IN IF ~Authorized("PageDelete", caller)
          THEN req' = [req EXCEPT ![r] = End(start, "unauthorized")]
          ELSE IF target = 0
          THEN req' = [req EXCEPT ![r] = End(start, "404")]
          ELSE req' = [req EXCEPT ![r] =
                         [start EXCEPT !.pc = "delete_entity", !.key = target]]
    /\ UNCHANGED <<articles, comments, next_article_id, next_comment_id, cache,
                   legacy_cfg, scratch>>

\* targets[0].delete() and the response
DeleteEntity(r) ==
    /\ req[r].pc = "delete_entity"
    /\ IF Lower(req[r].path) = <<"a","r","t","i","c","l","e">>
       THEN /\ articles' = Delete(articles, req[r].key)
            /\ UNCHANGED comments
       ELSE /\ comments' = Delete(comments, req[r].key)
            /\ UNCHANGED articles
    /\ req' = [req EXCEPT ![r].pc = "invalidate", ![r].resp = "deleted",
                          ![r].wrote = TRUE]
    /\ UNCHANGED <<next_article_id, next_comment_id, cache, legacy_cfg, scratch>>

\* ArticleHandler.put and ArticleHandler.delete: view.invalidate_cache() only
ArticleStub(r, handler, caller, path) ==
    /\ Free(r)
    /\ handler \in {"ArticlePut", "ArticleDelete"}
    /\ LET start == Begin(handler, caller, path)
       IN IF ~Authorized(handler, caller)
          THEN /\ req' = [req EXCEPT ![r] = End(start, "unauthorized")]
               /\ UNCHANGED cache
          ELSE /\ req' = [req EXCEPT ![r] = End([start EXCEPT !.inval = TRUE], "ok")]
               /\ cache' = FALSE
    /\ UNCHANGED <<articles, comments, next_article_id, next_comment_id,
                   legacy_cfg, scratch>>

----------------------------------------------------------------------------
(* The GET handlers.                                                        *)

NotFoundPage == <<"/","4","0","4",".","h","t","m","l">>

\* the aliases that equal the path, compared in lower case
MatchingAliases(path) == {alias \in AliasKeys : Lower(path) = Lower(alias)}

\* the article PageHandler.get finds once no alias matches: the legacy id mapping
\* first, then the permalink
PageArticle(path) ==
    LET by_id == IF legacy_cfg /\ LegacyIdMatch(path) THEN First(ByLegacyId(path)) ELSE 0
    IN IF by_id # 0 THEN by_id ELSE First(ByPermalink(path))

\* a lookup that tries the permalink before the alias table
PageGetPermalinkFirst(r, path) ==
    /\ Free(r)
    /\ LET start == Begin("PageGet", "anon", path)
           article == PageArticle(path)
       IN IF article # 0
          THEN /\ req' = [req EXCEPT ![r] =
                            [Finish(start, "render") EXCEPT !.shown = article]]
               /\ cache' = TRUE
          ELSE IF MatchingAliases(path) # {}
          THEN /\ \E alias \in MatchingAliases(path) :
                    req' = [req EXCEPT ![r] =
                              [Finish(start, "redirect") EXCEPT
                                  !.location = <<"/">> \o redirects(alias)]]
               /\ UNCHANGED cache
          ELSE /\ req' = [req EXCEPT ![r] =
                            [Finish(start, "redirect") EXCEPT !.location = NotFoundPage]]
               /\ UNCHANGED cache
    /\ UNCHANGED <<articles, comments, next_article_id, next_comment_id,
                   legacy_cfg, scratch>>

PageGet(r, path) ==
    /\ Free(r)
    /\ LET start == Begin("PageGet", "anon", path)
           article == PageArticle(path)
       IN IF MatchingAliases(path) # {}
          THEN /\ \E alias \in MatchingAliases(path) :
                    req' = [req EXCEPT ![r] =
                              [Finish(start, "redirect") EXCEPT
                                  !.location = <<"/">> \o redirects(alias)]]
               /\ UNCHANGED cache
          ELSE IF article # 0
          THEN /\ req' = [req EXCEPT ![r] =
                            [Finish(start, "render") EXCEPT !.shown = article]]
               /\ cache' = TRUE
          ELSE /\ req' = [req EXCEPT ![r] =
                            [Finish(start, "redirect") EXCEPT !.location = NotFoundPage]]
               /\ UNCHANGED cache
    /\ UNCHANGED <<articles, comments, next_article_id, next_comment_id,
                   legacy_cfg, scratch>>

\* ArticleHandler.get: article.is_big() is called whether or not an article was found
ArticleGet(r, path) ==
    /\ Free(r)
    /\ LET start == Begin("ArticleGet", "anon", path)
           article == First(ByPermalink(JoinPath(path[1], path[2], path[3])))
       IN IF article # 0
          THEN /\ req' = [req EXCEPT ![r] =
                            [Finish(start, "render") EXCEPT !.shown = article]]
               /\ cache' = TRUE
          ELSE /\ req' = [req EXCEPT ![r] = Finish(start, "exception")]
               /\ UNCHANGED cache
    /\ UNCHANGED <<articles, comments, next_article_id, next_comment_id,
                   legacy_cfg, scratch>>

\* the articles with start_date <= published <= end_date
PublishedBetween(start_date, end_date) ==
    {a \in DOMAIN articles : /\ TupleLeq(start_date, articles[a].published)
                             /\ TupleLeq(articles[a].published, end_date)}

\* the day MonthHandler.get gives the end of the month
EndDay(y, m) == 31

\* MonthHandler.get
MonthGet(r, path) ==
    /\ Free(r)
    /\ LET start == Begin("MonthGet", "anon", path)
           y == atoi(path[1])
           m == atoi(path[2])
       IN IF ~ValidDate(y, m, 1) \/ ~ValidDate(y, m, EndDay(y, m))
          THEN \* datetime.datetime raises ValueError
               /\ req' = [req EXCEPT ![r] = Finish(start, "exception")]
               /\ UNCHANGED cache
          ELSE /\ req' = [req EXCEPT ![r] =
                            [Finish(start, "render") EXCEPT !.listed =
                                PublishedBetween(<<y, m, 1, 0, 0, 0>>,
                                                 <<y, m, EndDay(y, m), 23, 59, 59>>)]]
               /\ cache' = TRUE
    /\ UNCHANGED <<articles, comments, next_article_id, next_comment_id,
                   legacy_cfg, scratch>>

\* RootHandler.get: the blog articles
RootGet(r) ==
    /\ Free(r)
    /\ req' = [req EXCEPT ![r] =
                 [Finish(Begin("RootGet", "anon", <<>>), "render") EXCEPT !.listed =
                     {a \in DOMAIN articles : articles[a].article_type = "blog"}]]
    /\ cache' = TRUE
    /\ UNCHANGED <<articles, comments, next_article_id, next_comment_id,
                   legacy_cfg, scratch>>

----------------------------------------------------------------------------
(* The pure functions, applied to every short title.                        *)

TitleChars == {"a", " ", "\t", "-", "!", "_"}

ShortTitles == UNION {[1..n -> TitleChars] : n \in 0..MaxTitleLen}

\* url = get_friendly_url(title)
SlugOnce ==
    /\ scratch.phase = "title"
    /\ scratch' = [scratch EXCEPT !.phase = "once", !.url = get_friendly_url(scratch.title)]
    /\ UNCHANGED <<articles, comments, next_article_id, next_comment_id, cache,
                   legacy_cfg, req>>

\* url2 = get_friendly_url(url)
SlugTwice ==
    /\ scratch.phase = "once"
    /\ scratch' = [scratch EXCEPT !.phase = "twice", !.url2 = get_friendly_url(scratch.url)]
    /\ UNCHANGED <<articles, comments, next_article_id, next_comment_id, cache,
                   legacy_cfg, req>>

InitSlug ==
    /\ articles = <<>>
    /\ comments = <<>>
    /\ next_article_id = 1
    /\ next_comment_id = 1
    /\ cache = FALSE
    /\ legacy_cfg = FALSE
    /\ req = [r \in 1..MaxReqs |-> IdleReq]
    /\ \E t \in ShortTitles :
          scratch = [phase |-> "title", title |-> t, url |-> <<>>, url2 |-> <<>>]

NextSlug == SlugOnce \/ SlugTwice

SpecSlug == InitSlug /\ [][NextSlug]_vars

----------------------------------------------------------------------------
(* The requests the model sends.                                            *)

Callers == {"anon", "user", "admin"}

Now == <<2024, 3, 15, 12, 0, 0>>

EndOfMarch == <<"2","0","2","4","-","0","3","-","3","1"," ","2","3",":","5","9",":","5","9">>
StartOfApril == <<"2","0","2","4","-","0","4","-","0","1"," ","0","0",":","0","0",":","0","0">>

Y2024 == <<"2","0","2","4">>
TitleAB == <<"a"," ","b">>
TitleC == <<"c">>
SlugAB == <<"a","-","b">>

ArticleForm(title, body, published, legacy_id) ==
    [title |-> title, body |-> body, published |-> published, legacy_id |-> legacy_id]

CommentForm(name, email, body, thread) ==
    [name |-> name, email |-> email, body |-> body, thread |-> thread]

\* article forms of the write specifications: one date, a form without a title
WriteArticleForms ==
    { ArticleForm(TitleAB, <<"x">>, EndOfMarch, None),
      ArticleForm(None, <<"x">>, EndOfMarch, None) }

MonthPostPath == <<Y2024, <<"0","3">>>>

FullComment == CommentForm(<<"n">>, <<"e">>, <<"x">>, <<"t">>)

\* a comment form without the field 'thread'
NoThreadComment == CommentForm(<<"n">>, <<"e">>, <<"x">>, None)

\* a second comment, with another body
OtherComment == CommentForm(<<"n">>, <<"e">>, <<"y">>, <<"t">>)

CommentForms == { FullComment, OtherComment, NoThreadComment }

PagePostPaths == { SlugAB, <<"z">> }

ArticlePaths ==
    { <<Y2024, m, s>> : m \in { <<"3">>, <<"0","3">>, <<"0","4">> }, s \in {SlugAB, TitleC} }

ArticlePostPath == <<Y2024, <<"3">>, SlugAB>>

DeletePaths == { <<"a","r","t","i","c","l","e">>, <<"C","o","m","m","e","n","t">>, <<"z">> }

PageGetPaths == { TitleC, <<"C">>, SlugAB, <<"7">>, <<"z">> }

MonthGetPaths == { <<Y2024, m>> : m \in { <<"0","2">>, <<"0","3">>, <<"3">>, <<"0","4">> } }

\* the steps of the write requests of slot r, one request at a time
NextSerial ==
    \/ \E c \in Callers, f \in WriteArticleForms : SubmitArticle(1, "RootPost", c, <<>>, f, Now)
    \/ \E c \in Callers, f \in WriteArticleForms :
          SubmitArticle(1, "MonthPost", c, MonthPostPath, f, Now)
    \/ \E c \in Callers, p \in PagePostPaths, f \in CommentForms :
          SubmitComment(1, "PagePost", c, p, f)
    \/ \E c \in Callers, f \in CommentForms :
          SubmitComment(1, "ArticlePost", c, ArticlePostPath, f)
    \/ PutParent(1)
    \/ PutComment(1)
    \/ \E c \in Callers, p \in DeletePaths : PageDelete(1, c, p)
    \/ DeleteEntity(1)
    \/ \E c \in Callers, h \in {"ArticlePut", "ArticleDelete"} :
          ArticleStub(1, h, c, ArticlePostPath)
    \/ Invalidate(1)
    \/ RootGet(1)

SpecSerial == Init /\ [][NextSerial]_vars

\* the steps of slot r in the requests of logged-in callers on one page and one
\* blog article
PageSteps(r) ==
    \/ SubmitArticle(r, "RootPost", "admin", <<>>,
                     ArticleForm(TitleAB, <<"x">>, EndOfMarch, None), Now)
    \/ SubmitArticle(r, "MonthPost", "admin", MonthPostPath,
                     ArticleForm(TitleAB, <<"x">>, EndOfMarch, None), Now)
    \/ \E f \in CommentForms : SubmitComment(r, "PagePost", "user", SlugAB, f)
    \/ \E f \in CommentForms : SubmitComment(r, "ArticlePost", "user", ArticlePostPath, f)
    \/ PutParent(r)
    \/ PutComment(r)
    \/ \E p \in DeletePaths : PageDelete(r, "admin", p)
    \/ DeleteEntity(r)
    \/ Invalidate(r)

\* concurrent requests: every store query, put and delete is one step, and the
\* steps of the requests interleave
Next == \E r \in 1..MaxReqs : PageSteps(r)

Spec == Init /\ [][Next]_vars

\* the same requests, one at a time
NextOne == PageSteps(1)

SpecOne == Init /\ [][NextOne]_vars

\* article forms of the page lookups: two titles, with and without a legacy id
PageArticleForms ==
    { ArticleForm(t, <<"x">>, EndOfMarch, l) : t \in {TitleAB, TitleC}, l \in {None, <<"7">>} }

\* article submissions and the lookups by path, one request at a time
NextPage ==
    \/ \E f \in PageArticleForms : SubmitArticle(1, "RootPost", "admin", <<>>, f, Now)
    \/ \E f \in PageArticleForms : SubmitArticle(1, "MonthPost", "admin", MonthPostPath, f, Now)
    \/ Invalidate(1)
    \/ \E p \in PageGetPaths : PageGet(1, p)
    \/ \E p \in ArticlePaths : ArticleGet(1, p)

SpecPage == InitRead /\ [][NextPage]_vars

\* article forms of the lookups by date: published at the end of March, at the
\* start of April, or now
DateArticleForms ==
    { ArticleForm(TitleAB, <<"x">>, p, None) : p \in {EndOfMarch, StartOfApril, None} }

\* blog article submissions and the lookups by date, one request at a time
NextDates ==
    \/ \E f \in DateArticleForms : SubmitArticle(1, "MonthPost", "admin", MonthPostPath, f, Now)
    \/ Invalidate(1)
    \/ \E p \in ArticlePaths : ArticleGet(1, p)
    \/ \E p \in MonthGetPaths : MonthGet(1, p)
    \/ RootGet(1)

SpecDates == Init /\ [][NextDates]_vars

----------------------------------------------------------------------------
(* The properties.                                                          *)

MutatingHandlers ==
    {"RootPost", "PagePost", "PageDelete", "MonthPost", "ArticlePost", "ArticlePut",
     "ArticleDelete"}

CommentHandlers == {"PagePost", "ArticlePost"}

\* C1: a request to a mutating handler from a caller who is not authenticated in
\* any role writes nothing to the store and does not invalidate the cache.
C1_RoleGate ==
    \A r \in DOMAIN req :
        (req[r].handler \in MutatingHandlers /\ req[r].caller = "anon")
            => (~req[r].wrote /\ ~req[r].inval)

\* C2: no request ends with the store changed by it and the render cache not
\* invalidated by it.
C2_InvalidateAfterWrite ==
    \A r \in DOMAIN req :
        (req[r].pc = "done" /\ req[r].wrote) => req[r].inval

\* C3: no two Article entities of the store have the same permalink, and no two
\* Comment entities of the store have the same permalink.
C3_UniquePermalinks ==
    /\ \A a, b \in DOMAIN articles :
          a # b => articles[a].permalink # articles[b].permalink
    /\ \A c, d \in DOMAIN comments :
          c # d => comments[c].permalink # comments[d].permalink

\* while the request holds its new Comment in the store, the stored parent carries
\* the counter the request computed, which is at least 1
C4_ParentCarriesCounter ==
    \A r \in DOMAIN req :
        (req[r].handler \in CommentHandlers /\ req[r].pc = "invalidate")
            => /\ \E c \in DOMAIN comments : comments[c].article = req[r].key
               /\ req[r].key \in DOMAIN articles
               /\ articles[req[r].key].num_comments = req[r].article.num_comments
               /\ articles[req[r].key].num_comments >= 1

\* the step that persists the parent sets its counter to 1 from unset or zero and
\* adds exactly 1 otherwise, and puts no Comment; the step that puts the Comment
\* leaves the parent as it is
C4_Steps ==
    \A r \in DOMAIN req :
        /\ (req[r].pc = "put_parent" /\ req'[r].pc = "put_comment")
              => /\ comments' = comments
                 /\ articles'[req[r].key].num_comments =
                       (IF articles[req[r].key].num_comments \in {Unset, 0}
                        THEN 1 ELSE articles[req[r].key].num_comments + 1)
        /\ (req[r].pc = "put_comment" /\ req'[r].pc = "invalidate")
              => /\ articles' = articles
                 /\ DOMAIN comments' # DOMAIN comments

\* C4: in a comment submission on an existing article the parent's num_comments
\* becomes 1 from unset or zero and is otherwise incremented by exactly 1, and the
\* parent is persisted before the Comment: whenever the request's new Comment is in
\* the store, the stored parent already carries the incremented counter.
C4_ParentBeforeComment == []C4_ParentCarriesCounter /\ [][C4_Steps]_vars

\* a second comment is in the store and its parent's counter went from 1 to 2
C4_Witness ==
    \E r \in DOMAIN req :
        /\ req[r].handler \in CommentHandlers
        /\ req[r].pc = "invalidate"
        /\ Cardinality(comment_set(req[r].key)) = 2
        /\ articles[req[r].key].num_comments = 2

\* C5: a Page GET on a path that is a key of the legacy alias table, compared in
\* lower case, and also the permalink of a stored Article answers with the alias
\* redirect and renders no article.
C5_AliasBeforePermalink ==
    \A r \in DOMAIN req :
        (/\ req[r].handler = "PageGet"
         /\ req[r].pc = "done"
         /\ MatchingAliases(req[r].path) # {}
         /\ ByPermalink(req[r].path) # {})
            => /\ req[r].resp = "redirect"
               /\ \E alias \in MatchingAliases(req[r].path) :
                     req[r].location = <<"/">> \o redirects(alias)
               /\ req[r].shown = 0

\* a Page GET on "c", which matches the alias "C" and is the permalink of a page
C5_Witness ==
    \E r \in DOMAIN req :
        /\ req[r].handler = "PageGet"
        /\ req[r].pc = "done"
        /\ req[r].path = TitleC
        /\ MatchingAliases(req[r].path) = {<<"C">>}
        /\ ByPermalink(req[r].path) # {}
        /\ req[r].resp = "redirect"

\* C6: a GET for a resource that does not exist ends without an exception: a Page
\* GET that matches no alias, legacy id or permalink redirects to the not-found
\* page, and an Article GET that matches no stored Article ends with status 404.
C6_NotFoundHandled ==
    \A r \in DOMAIN req :
        /\ (/\ req[r].handler = "PageGet"
            /\ req[r].pc = "done"
            /\ MatchingAliases(req[r].path) = {}
            /\ PageArticle(req[r].path) = 0)
               => (req[r].resp = "redirect" /\ req[r].location = NotFoundPage)
        /\ (/\ req[r].handler = "ArticleGet"
            /\ req[r].pc = "done"
            /\ ByPermalink(JoinPath(req[r].path[1], req[r].path[2], req[r].path[3])) = {})
               => req[r].resp = "404"

\* C7: after a Month POST to /yyyy/mm has created an Article published in year yyyy
\* and month mm, an Article GET on /yyyy/mm/get_friendly_url(title), with the year
\* and month segments of the POST path, renders an Article of that permalink.
C7_CreateThenRead ==
    \A r \in DOMAIN req :
        \A a \in DOMAIN articles :
            (/\ req[r].handler = "ArticleGet"
             /\ req[r].pc = "done"
             /\ <<req[r].path[1], req[r].path[2]>> = MonthPostPath
             /\ articles[a].article_type = "blog"
             /\ articles[a].published[1] = atoi(req[r].path[1])
             /\ articles[a].published[2] = atoi(req[r].path[2])
             /\ req[r].path[3] = get_friendly_url(articles[a].title))
                => /\ req[r].resp = "render"
                   /\ req[r].shown \in DOMAIN articles
                   /\ articles[req[r].shown].permalink = articles[a].permalink

\* C8: a Month GET on /yyyy/mm with mm in 1..12 completes and lists exactly the
\* Articles published in that calendar month.
C8_MonthQuery ==
    \A r \in DOMAIN req :
        (/\ req[r].handler = "MonthGet"
         /\ req[r].pc = "done"
         /\ atoi(req[r].path[2]) \in 1..12)
            => /\ req[r].resp = "render"
               /\ req[r].listed =
                     {a \in DOMAIN articles :
                         /\ articles[a].published[1] = atoi(req[r].path[1])
                         /\ articles[a].published[2] = atoi(req[r].path[2])}

NoHyphenRun(s) == \A i \in 1..(Len(s) - 1) : ~(s[i] = "-" /\ s[i + 1] = "-")

\* C9: get_friendly_url is idempotent, and its result holds no whitespace, no
\* character other than word characters and hyphens, and no run of two hyphens.
C9_SlugIdempotent ==
    scratch.phase = "twice"
        => /\ scratch.url2 = scratch.url
           /\ \A i \in DOMAIN scratch.url :
                 scratch.url[i] \notin Whitespace /\ scratch.url[i] \in WordChars \cup {"-"}
           /\ NoHyphenRun(scratch.url)

\* the slug of "a -", where whitespace turns into a second hyphen
C9_Witness ==
    /\ scratch.phase = "twice"
    /\ scratch.title = <<"a", " ", "-">>
    /\ scratch.url = <<"a", "-">>

\* the counter as a number: an unset counter counts as 0
Count(n) == IF n = Unset THEN 0 ELSE n

\* C10: under any interleaving of comment submissions, the stored num_comments of
\* an Article is at least the number of Comments that reference it.
C10_CounterCoversComments ==
    \A a \in DOMAIN articles :
        Count(articles[a].num_comments) >= Cardinality(comment_set(a))

====
